---- MODULE Spec2Model ----
(***************************************************************************)
(* A model of derive/printer.go: the printer that accumulates generated    *)
(* code (P, In, Out), hands out lazy import handles (NewImport), and       *)
(* serializes header, import block and content (WriteTo).                  *)
(*                                                                         *)
(* Strings are sequences of characters: Len, \o and SubSeq apply to them,  *)
(* and unvendor, makeFullpath and sort.Strings are computed character by   *)
(* character.                                                              *)
(***************************************************************************)
EXTENDS Integers, Sequences, FiniteSets, TLC

VARIABLES
    pkgName,     \* printer.pkgName
    w,           \* printer.w: the unread bytes of the content buffer
    indent,      \* printer.indent: a string of tabs
    imports,     \* printer.imports: map from qualifier to path
    hasContent,  \* printer.hasContent
    handles,     \* the Import closures that exist: captured name and path
    call,        \* the last call made on the printer and its outcome
    net,         \* history: In calls minus Out calls that returned
    everP,       \* history: P has been called
    firstId,     \* history: path -> the identifier first returned for it
    returned,    \* history: the (identifier, path) pairs handle invocations returned
    twin         \* a second printer, given the same handles in another order

vars == <<pkgName, w, indent, imports, hasContent, handles, call, net, everP, firstId, returned, twin>>

(***************************************************************************)
(* Bounds of the model.                                                    *)
(***************************************************************************)
MaxHandles == 2
MaxLines == 1
MaxDepth == 1

(***************************************************************************)
(* Inputs the callers are drawn from.                                      *)
(***************************************************************************)
PkgNames == { "p" }

Names == { "a", "b" }

RawPaths == { "b", "a/b", "v/vendor/b" }

\* P(format, a...): a format string and its arguments
PArgs == { [format |-> "%s", a |-> <<"x">>] }

(***************************************************************************)
(* Characters.                                                             *)
(***************************************************************************)
Letters == { "a", "b", "c", "d", "e", "f", "g", "h", "i", "j", "k", "l", "m",
             "n", "o", "p", "q", "r", "s", "t", "u", "v", "w", "x", "y", "z" }

Digits == { "0", "1", "2", "3", "4", "5", "6", "7", "8", "9" }

\* the byte value of the characters that occur in paths and qualifiers
ByteOf(c) ==
    CASE c = "." -> 46
      [] c = "/" -> 47
      [] c = "_" -> 95
      [] c = "a" -> 97
      [] c = "b" -> 98
      [] c = "d" -> 100
      [] c = "e" -> 101
      [] c = "n" -> 110
      [] c = "o" -> 111
      [] c = "r" -> 114
      [] c = "v" -> 118

\* the i-th character of s
Char(s, i) == SubSeq(s, i, i)

\* Go's string comparison s < t: bytewise lexicographic
StrLess(s, t) ==
    \E i \in 1..Len(t) :
        /\ i <= Len(s) + 1
        /\ SubSeq(s, 1, i - 1) = SubSeq(t, 1, i - 1)
        /\ IF i = Len(s) + 1 THEN TRUE ELSE ByteOf(Char(s, i)) < ByteOf(Char(t, i))

\* badToUnderscore that keeps every character
badToUnderscoreKeep(r) == r

badToUnderscore(r) ==
    IF r \in Letters \/ r \in Digits \/ r = "_" THEN r ELSE "_"

\* strings.LastIndex(s, sub): the 0-based index of the last occurrence, or -1
LastIndex(s, sub) ==
    LET at == { i \in 0..(Len(s) - Len(sub)) : SubSeq(s, i + 1, i + Len(sub)) = sub }
    IN  IF at = {} THEN -1 ELSE CHOOSE i \in at : \A j \in at : j <= i

VendorMarker == "/vendor/"

unvendor(path) ==
    LET lastvendor == LastIndex(path, VendorMarker)
    IN  IF lastvendor # -1
        THEN SubSeq(path, lastvendor + 8 + 1, Len(path))
        ELSE path

\* strings.Map(badToUnderscore, s)
RECURSIVE MapBadToUnderscore(_)
MapBadToUnderscore(s) ==
    IF Len(s) = 0 THEN ""
    ELSE badToUnderscore(Char(s, 1)) \o MapBadToUnderscore(SubSeq(s, 2, Len(s)))

makeFullpath(path) == MapBadToUnderscore(path)

(***************************************************************************)
(* The registry and the Import closure.                                    *)
(***************************************************************************)
EmptyMap == [k \in {} |-> k]

MapPut(m, k, v) == [x \in (DOMAIN m) \cup {k} |-> IF x = k THEN v ELSE m[x]]

\* ImportCall with the fallback forgotten: a taken name is rebound
ImportCallOverwrite(m, name, path0) ==
    LET path == unvendor(path0)
        alias == name
    IN  [imports |-> MapPut(m, alias, path), path |-> path, ret |-> alias, panic |-> FALSE]

\* ImportCall without the reuse of a name already bound to the path
ImportCallNoReuse(m, name, path0) ==
    LET path == unvendor(path0)
        fullpath == makeFullpath(path)
        alias == name
    IN  IF alias \notin DOMAIN m
        THEN [imports |-> MapPut(m, alias, path), path |-> path, ret |-> alias, panic |-> FALSE]
        ELSE IF fullpath \in DOMAIN m /\ m[fullpath] # path
        THEN [imports |-> m, path |-> path, ret |-> "", panic |-> TRUE]
        ELSE [imports |-> MapPut(m, fullpath, path), path |-> path, ret |-> fullpath, panic |-> FALSE]

\* ImportCall without the check that the full path key is free
ImportCallNoPanic(m, name, path0) ==
    LET path == unvendor(path0)
        fullpath == makeFullpath(path)
        alias == name
    IN  IF alias \notin DOMAIN m
        THEN [imports |-> MapPut(m, alias, path), path |-> path, ret |-> alias, panic |-> FALSE]
        ELSE IF m[alias] = path
        THEN [imports |-> m, path |-> path, ret |-> alias, panic |-> FALSE]
        ELSE [imports |-> MapPut(m, fullpath, path), path |-> path, ret |-> fullpath, panic |-> FALSE]

\* ImportCall that panics whenever the full path key is taken
ImportCallPanicTaken(m, name, path0) ==
    LET path == unvendor(path0)
        fullpath == makeFullpath(path)
        alias == name
    IN  IF alias \notin DOMAIN m
        THEN [imports |-> MapPut(m, alias, path), path |-> path, ret |-> alias, panic |-> FALSE]
        ELSE IF m[alias] = path
        THEN [imports |-> m, path |-> path, ret |-> alias, panic |-> FALSE]
        ELSE IF fullpath \in DOMAIN m
        THEN [imports |-> m, path |-> path, ret |-> "", panic |-> TRUE]
        ELSE [imports |-> MapPut(m, fullpath, path), path |-> path, ret |-> fullpath, panic |-> FALSE]

\* ImportCall that gives the name to the new path when the name and the full
\* path key are both taken
ImportCallRebind(m, name, path0) ==
    LET path == unvendor(path0)
        fullpath == makeFullpath(path)
        alias == name
    IN  IF alias \notin DOMAIN m
        THEN [imports |-> MapPut(m, alias, path), path |-> path, ret |-> alias, panic |-> FALSE]
        ELSE IF m[alias] = path
        THEN [imports |-> m, path |-> path, ret |-> alias, panic |-> FALSE]
        ELSE IF fullpath \in DOMAIN m /\ m[fullpath] # path
        THEN [imports |-> MapPut(m, alias, path), path |-> path, ret |-> alias, panic |-> FALSE]
        ELSE [imports |-> MapPut(m, fullpath, path), path |-> path, ret |-> fullpath, panic |-> FALSE]

\* The body of the closure NewImport returns, run on registry m with the
\* captured name and path: the registry after it, the captured path after
\* it, the name returned, and whether it panicked.
ImportCall(m, name, path0) ==
    LET path == unvendor(path0)
        fullpath == makeFullpath(path)
        alias == name
    IN  IF alias \notin DOMAIN m
        THEN [imports |-> MapPut(m, alias, path), path |-> path, ret |-> alias, panic |-> FALSE]
        ELSE IF m[alias] = path
        THEN [imports |-> m, path |-> path, ret |-> alias, panic |-> FALSE]
        ELSE IF fullpath \in DOMAIN m /\ m[fullpath] # path
        THEN [imports |-> m, path |-> path, ret |-> "", panic |-> TRUE]
        ELSE [imports |-> MapPut(m, fullpath, path), path |-> path, ret |-> fullpath, panic |-> FALSE]

(***************************************************************************)
(* fmt.Fprintf for the verbs the callers use: %s takes the next argument,  *)
(* %% is a percent sign, a %s without an argument prints %!s(MISSING).     *)
(***************************************************************************)
Missing == "%!s(MISSING)"

RECURSIVE Sprintf(_, _)
Sprintf(format, a) ==
    IF Len(format) = 0 THEN ""
    ELSE IF Len(format) >= 2 /\ SubSeq(format, 1, 2) = "%s"
    THEN (IF a = <<>> THEN Missing ELSE Head(a))
         \o Sprintf(SubSeq(format, 3, Len(format)), IF a = <<>> THEN a ELSE Tail(a))
    ELSE IF Len(format) >= 2 /\ SubSeq(format, 1, 2) = "%%"
    THEN "%" \o Sprintf(SubSeq(format, 3, Len(format)), a)
    ELSE Char(format, 1) \o Sprintf(SubSeq(format, 2, Len(format)), a)

(***************************************************************************)
(* Initial state: newPrinter(pkgName).                                     *)
(***************************************************************************)
Init ==
    /\ pkgName \in PkgNames
    /\ w = ""
    /\ indent = ""
    /\ imports = EmptyMap
    /\ hasContent = FALSE
    /\ handles = {}
    /\ call = [op |-> "newPrinter", panic |-> FALSE]
    /\ net = 0
    /\ everP = FALSE
    /\ firstId = EmptyMap
    /\ returned = {}
    /\ twin = [imports |-> EmptyMap, invoked |-> {}]

\* the outcome of a call that returns nothing
Returned == [op |-> "return", panic |-> FALSE]

\* a panic ends the run of the generator
Running == ~call.panic

\* NewImport that registers the import when the handle is declared
NewImportEager(name, path) ==
    /\ Running
    /\ Cardinality(handles \cup {[name |-> name, path |-> path, first |-> <<>>]}) <= MaxHandles
    /\ handles' = handles \cup {[name |-> name, path |-> path, first |-> <<>>]}
    /\ imports' = IF ImportCall(imports, name, path).panic
                  THEN imports
                  ELSE ImportCall(imports, name, path).imports
    /\ call' = Returned
    /\ UNCHANGED <<pkgName, w, indent, hasContent, net, everP, firstId, returned, twin>>

NewImport(name, path) ==
    /\ Running
    /\ Cardinality(handles \cup {[name |-> name, path |-> path, first |-> <<>>]}) <= MaxHandles
    /\ handles' = handles \cup {[name |-> name, path |-> path, first |-> <<>>]}
    /\ call' = Returned
    /\ UNCHANGED <<pkgName, w, indent, imports, hasContent, net, everP, firstId, returned, twin>>

\* invoking the handle h
Import(h) ==
    /\ Running
    /\ h \in handles
    /\ LET r == ImportCall(imports, h.name, h.path)
           first == IF h.first = <<>> /\ ~r.panic THEN <<r.ret>> ELSE h.first
       IN  /\ imports' = r.imports
           /\ handles' = (handles \ {h}) \cup {[name |-> h.name, path |-> r.path, first |-> first]}
           /\ firstId' = IF r.panic \/ r.path \in DOMAIN firstId
                         THEN firstId
                         ELSE MapPut(firstId, r.path, r.ret)
           /\ returned' = IF r.panic THEN returned
                          ELSE returned \cup {[id |-> r.ret, path |-> r.path]}
           /\ call' = [op |-> "Import", panic |-> r.panic, name |-> h.name, path |-> r.path,
                       ret |-> r.ret, first |-> h.first]
    /\ UNCHANGED <<pkgName, w, indent, hasContent, net, everP, twin>>

\* the number of line breaks in the buffer
NumLines(buf) == Cardinality({ i \in 1..Len(buf) : Char(buf, i) = "\n" })

\* P that leaves the indentation out
PNoIndent(format, a) ==
    /\ Running
    /\ NumLines(w) < MaxLines
    /\ hasContent' = TRUE
    /\ w' = w \o Sprintf(format \o "\n", a)
    /\ everP' = TRUE
    /\ call' = Returned
    /\ UNCHANGED <<pkgName, indent, imports, handles, net, firstId, returned, twin>>

\* P that forgets to set hasContent
PNoFlag(format, a) ==
    /\ Running
    /\ NumLines(w) < MaxLines
    /\ w' = w \o Sprintf(indent \o format \o "\n", a)
    /\ everP' = TRUE
    /\ call' = Returned
    /\ UNCHANGED <<pkgName, indent, imports, hasContent, handles, net, firstId, returned, twin>>

P(format, a) ==
    /\ Running
    /\ NumLines(w) < MaxLines
    /\ hasContent' = TRUE
    /\ w' = w \o Sprintf(indent \o format \o "\n", a)
    /\ everP' = TRUE
    /\ call' = Returned
    /\ UNCHANGED <<pkgName, indent, imports, handles, net, firstId, returned, twin>>

In ==
    /\ Running
    /\ Len(indent) < MaxDepth
    /\ indent' = indent \o "\t"
    /\ net' = net + 1
    /\ call' = Returned
    /\ UNCHANGED <<pkgName, w, imports, hasContent, handles, everP, firstId, returned, twin>>

\* Out that returns without a panic at depth zero
OutSilent ==
    /\ Running
    /\ indent' = IF Len(indent) > 0 THEN SubSeq(indent, 2, Len(indent)) ELSE indent
    /\ net' = net - 1
    /\ call' = Returned
    /\ UNCHANGED <<pkgName, w, imports, hasContent, handles, everP, firstId, returned, twin>>

Out ==
    /\ Running
    /\ IF Len(indent) > 0
       THEN /\ indent' = SubSeq(indent, 2, Len(indent))
            /\ net' = net - 1
            /\ call' = Returned
       ELSE /\ call' = [op |-> "Out", panic |-> TRUE]
            /\ UNCHANGED <<indent, net>>
    /\ UNCHANGED <<pkgName, w, imports, hasContent, handles, everP, firstId, returned, twin>>

\* HasContent() reads the field and changes nothing
HasContent == hasContent

(***************************************************************************)
(* WriteTo.                                                                *)
(***************************************************************************)
\* the orders in which a range over the keys of m can visit them
IterationOrders(m) ==
    { s \in [1..Cardinality(DOMAIN m) -> DOMAIN m] : \A i, j \in DOMAIN s : s[i] = s[j] => i = j }

\* paths after the loop over the map, before the sort
PathsOf(m, order) == [i \in 1..Len(order) |-> m[order[i]]]

\* pathToQual after the loop over the map: the qualifier visited last wins
PathToQual(m, order) ==
    [p \in { m[k] : k \in DOMAIN m } |->
        order[CHOOSE i \in 1..Len(order) :
                /\ m[order[i]] = p
                /\ \A j \in (i + 1)..Len(order) : m[order[j]] # p]]

\* s with x inserted before the first element greater than x
RECURSIVE Insert(_, _)
Insert(s, x) ==
    IF s = <<>> THEN <<x>>
    ELSE IF StrLess(x, Head(s)) THEN <<x>> \o s
    ELSE <<Head(s)>> \o Insert(Tail(s), x)

\* sort.Strings left out
SortStringsNone(s) == s

\* sort.Strings
RECURSIVE SortStrings(_)
SortStrings(s) ==
    IF s = <<>> THEN <<>> ELSE Insert(SortStrings(SubSeq(s, 1, Len(s) - 1)), s[Len(s)])

\* ImportLines sorted by qualifier instead of by path
ImportLinesByQual(m, order) ==
    LET quals == SortStrings(order)
    IN  [i \in 1..Len(quals) |-> [qual |-> quals[i], path |-> m[quals[i]]]]

\* the (qualifier, path) pairs in the order the second loop writes them
ImportLines(m, order) ==
    LET paths == SortStrings(PathsOf(m, order))
        pathToQual == PathToQual(m, order)
    IN  [i \in 1..Len(paths) |-> [qual |-> pathToQual[paths[i]], path |-> paths[i]]]

\* one iteration order for each outcome the two loops can have: the orders
\* left out write what one of these writes
DistinctOrders(m) ==
    LET outcomes == { ImportLines(m, order) : order \in IterationOrders(m) }
    IN  { CHOOSE order \in IterationOrders(m) : ImportLines(m, order) = lines : lines \in outcomes }

\* the text of one line of the import block
ImportLine(qual, path) ==
    IF qual = path
    THEN "\t\"" \o path \o "\"\n"
    ELSE "\t" \o qual \o " \"" \o path \o "\"\n"

RECURSIVE Concat(_)
Concat(ss) == IF ss = <<>> THEN "" ELSE Head(ss) \o Concat(Tail(ss))

GeneratedLine == "// Code generated by goderive DO NOT EDIT.\n"

PackageLine(pkg) == "package " \o pkg \o "\n"

ImportBlock(lines) ==
    "\n" \o "import (\n"
    \o Concat([i \in 1..Len(lines) |-> ImportLine(lines[i].qual, lines[i].path)])
    \o ")\n"

\* the buffer top when it is written
Top(pkg, m, order) ==
    GeneratedLine \o "\n" \o PackageLine(pkg)
    \o (IF Cardinality(DOMAIN m) > 0 THEN ImportBlock(ImportLines(m, order)) ELSE "")

\* The sink: its n-th Write either takes all the bytes, or takes half of them
\* and returns an error, or takes half of them and returns no error. A sink
\* is the sequence of its answers.
SinkBehaviours ==
    { <<"ok", "ok">>, <<"ok", "error">>, <<"ok", "short">>, <<"error">>, <<"short">> }

\* what the Write of len bytes returns under the answer ans
SinkResult(ans, len) ==
    IF ans = "ok" THEN [m |-> len, e |-> FALSE] ELSE [m |-> len \div 2, e |-> ans = "error"]

\* bytes.Buffer.WriteTo on a buffer holding buf, the sink answering res:
\* the count and error returned, the bytes left in the buffer, the bytes
\* the sink took, and the number of Write calls made
BufferWriteTo(buf, res) ==
    IF Len(buf) > 0
    THEN LET rest == SubSeq(buf, res.m + 1, Len(buf))
             took == SubSeq(buf, 1, res.m)
         IN  IF res.e
             THEN [n |-> res.m, err |-> "error", buf |-> rest, took |-> took, writes |-> 1]
             ELSE IF res.m # Len(buf)
             THEN [n |-> res.m, err |-> "ErrShortWrite", buf |-> rest, took |-> took, writes |-> 1]
             ELSE [n |-> res.m, err |-> "nil", buf |-> "", took |-> took, writes |-> 1]
    ELSE [n |-> 0, err |-> "nil", buf |-> "", took |-> "", writes |-> 0]

\* WriteTo that writes the content whether or not the header write failed
WriteToNoShortCircuit(order, sink) ==
    /\ Running
    /\ LET lines == IF Cardinality(DOMAIN imports) > 0 THEN ImportLines(imports, order) ELSE <<>>
           top == Top(pkgName, imports, order)
           r1 == BufferWriteTo(top, SinkResult(sink[1], Len(top)))
           r2 == BufferWriteTo(w, SinkResult(sink[Len(sink)], Len(w)))
       IN  IF FALSE
           THEN /\ call' = [op |-> "WriteTo", panic |-> FALSE, n |-> r1.n, err |-> r1.err,
                            n1 |-> r1.n, file |-> r1.took, lines |-> lines,
                            writes |-> r1.writes, sink |-> sink]
                /\ w' = w
           ELSE /\ call' = [op |-> "WriteTo", panic |-> FALSE, n |-> r1.n + r2.n, err |-> r2.err,
                            n1 |-> r1.n, file |-> r1.took \o r2.took, lines |-> lines,
                            writes |-> r1.writes + r2.writes, sink |-> sink]
                /\ w' = r2.buf
    /\ UNCHANGED <<pkgName, indent, imports, hasContent, handles, net, everP, firstId, returned, twin>>

WriteTo(order, sink) ==
    /\ Running
    /\ LET lines == IF Cardinality(DOMAIN imports) > 0 THEN ImportLines(imports, order) ELSE <<>>
           top == Top(pkgName, imports, order)
           r1 == BufferWriteTo(top, SinkResult(sink[1], Len(top)))
           r2 == BufferWriteTo(w, SinkResult(sink[2], Len(w)))
       IN  IF r1.err # "nil"
           THEN /\ call' = [op |-> "WriteTo", panic |-> FALSE, n |-> r1.n, err |-> r1.err,
                            n1 |-> r1.n, file |-> r1.took, lines |-> lines,
                            writes |-> r1.writes, sink |-> sink]
                /\ w' = w
           ELSE /\ call' = [op |-> "WriteTo", panic |-> FALSE, n |-> r1.n + r2.n, err |-> r2.err,
                            n1 |-> r1.n, file |-> r1.took \o r2.took, lines |-> lines,
                            writes |-> r1.writes + r2.writes, sink |-> sink]
                /\ w' = r2.buf
    /\ UNCHANGED <<pkgName, indent, imports, hasContent, handles, net, everP, firstId, returned, twin>>

Next ==
    \/ \E name \in Names, path \in RawPaths : NewImport(name, path)
    \/ \E h \in handles : Import(h)
    \/ \E f \in PArgs : P(f.format, f.a)
    \/ In
    \/ Out
    \/ \E order \in DistinctOrders(imports), sink \in SinkBehaviours : WriteTo(order, sink)

Spec == Init /\ [][Next]_vars

(***************************************************************************)
(* Two printers given the same handles.  The twin is given handles one at  *)
(* a time, each invoked as soon as it is declared; then the printer is     *)
(* given handles of the twin, declared and invoked in any order.           *)
(***************************************************************************)
TwinImport(name, path) ==
    /\ Running
    /\ handles = {}
    /\ LET r == ImportCall(twin.imports, name, path)
           invoked == twin.invoked \cup {[name |-> name, path |-> r.path]}
       IN  /\ ~r.panic
           /\ Cardinality(invoked) <= MaxHandles
           /\ twin' = [imports |-> r.imports, invoked |-> invoked]
    /\ UNCHANGED <<pkgName, w, indent, imports, hasContent, handles, call, net, everP,
                   firstId, returned>>

NextPair ==
    \/ \E name \in Names, path \in RawPaths : TwinImport(name, path)
    \/ \E x \in twin.invoked : NewImport(x.name, x.path)
    \/ \E h \in handles : Import(h)
    \/ \E f \in PArgs : P(f.format, f.a)
    \/ \E order \in DistinctOrders(imports), sink \in SinkBehaviours : WriteTo(order, sink)

SpecPair == Init /\ [][NextPair]_vars

(***************************************************************************)
(* A printer whose handles are invoked where they are declared,            *)
(* p.NewImport(name, path)(), for names and paths that collide: two paths  *)
(* with the same full path key, and a name that is such a key.             *)
(***************************************************************************)
ConflictNames == { "a", "a_b" }

ConflictPaths == { "b", "a/b", "a.b" }

\* p.NewImport(name, path)(): the closure is invoked once and not kept
ImportNow(name, path) ==
    /\ Running
    /\ LET r == ImportCall(imports, name, path)
       IN  /\ imports' = r.imports
           /\ firstId' = IF r.panic \/ r.path \in DOMAIN firstId
                         THEN firstId
                         ELSE MapPut(firstId, r.path, r.ret)
           /\ returned' = IF r.panic THEN returned
                          ELSE returned \cup {[id |-> r.ret, path |-> r.path]}
           /\ call' = [op |-> "Import", panic |-> r.panic, name |-> name, path |-> r.path,
                       ret |-> r.ret, first |-> <<>>, raw |-> path]
    /\ UNCHANGED <<pkgName, w, indent, hasContent, handles, net, everP, twin>>

NextConflict ==
    \/ \E name \in ConflictNames, path \in ConflictPaths : ImportNow(name, path)
    \/ \E f \in PArgs : P(f.format, f.a)
    \/ In
    \/ Out
    \/ \E order \in DistinctOrders(imports), sink \in SinkBehaviours : WriteTo(order, sink)

SpecConflict == Init /\ [][NextConflict]_vars

(***************************************************************************)
(* A printer given paths in vendored and unvendored form: a prefix, the    *)
(* marker /vendor/ and a path, where the path itself may start with the    *)
(* directory vendor.                                                       *)
(***************************************************************************)
VendorNames == { "a", "b" }

Prefixes == { "v" }

UnvendoredPaths == { "b", "vendor/b" }

VendorPaths == UnvendoredPaths \cup { X \o VendorMarker \o S : X \in Prefixes, S \in UnvendoredPaths }

NextVendor ==
    \/ \E name \in VendorNames, path \in VendorPaths : ImportNow(name, path)
    \/ \E f \in PArgs : P(f.format, f.a)
    \/ \E order \in DistinctOrders(imports), sink \in SinkBehaviours : WriteTo(order, sink)

SpecVendor == Init /\ [][NextVendor]_vars

(***************************************************************************)
(* A printer that accumulates content and is not written: the formats and  *)
(* arguments of P include text that holds a line break.                    *)
(***************************************************************************)
ContentArgs == PArgs \cup { [format |-> "x\n%s", a |-> <<"y">>] }

NextContent ==
    \/ \E f \in ContentArgs : P(f.format, f.a)
    \/ In
    \/ Out
    \/ \E name \in Names, path \in RawPaths : NewImport(name, path)
    \/ \E h \in handles : Import(h)

SpecContent == Init /\ [][NextContent]_vars

(***************************************************************************)
(* Properties.                                                             *)
(***************************************************************************)

\* C1: identifiers are unique: two handle invocations that returned
\* identifiers for different normalized paths returned different identifiers.
C1_UniqueIdentifiers ==
    \A r1, r2 \in returned : r1.path # r2.path => r1.id # r2.id

\* two paths have identifiers, the second one through the full path key
C1_Witness ==
    /\ call.op = "Import" /\ ~call.panic
    /\ call.ret # call.name
    /\ \E r1, r2 \in returned : r1.path # r2.path

\* C2: one identifier per path: every invocation for a path returns the
\* identifier that was registered first for that path, under any name.
C2_OneIdentifierPerPath ==
    \A r \in returned : r.id = firstId[r.path]

\* C3: a handle is idempotent: every invocation of a handle after its first
\* successful one returns the name the first one returned.
C3_HandleIdempotent ==
    (call.op = "Import" /\ call.first # <<>>) => (~call.panic /\ call.ret = call.first[1])

\* a handle invoked again, other handles registered and content printed
C3_Witness ==
    /\ call.op = "Import" /\ call.first # <<>> /\ ~call.panic
    /\ Cardinality(DOMAIN imports) >= 2
    /\ everP

\* the handles other than the one just invoked that have the same name,
\* another normalized path and have been invoked
SameNameOtherPath ==
    IF call.op = "Import"
    THEN { h \in handles : h.first # <<>> /\ h.name = call.name /\ h.path # call.path }
    ELSE {}

C5_DeterministicSerialization ==
    (call.op = "WriteTo" /\ call.err = "nil") =>
        \A order \in IterationOrders(imports) :
            SubSeq(call.file, 1, call.n1) = Top(pkgName, imports, order)

\* the printer has invoked exactly the handles the twin has invoked
SameHandles ==
    /\ \A h \in handles : h.first # <<>>
    /\ { [name |-> h.name, path |-> h.path] : h \in handles } = twin.invoked

\* what the twin writes for the content the printer wrote
TwinFiles ==
    { Top(pkgName, twin.imports, order) \o SubSeq(call.file, call.n1 + 1, Len(call.file)) :
        order \in IterationOrders(twin.imports) }

\* no two of the handles share a preferred name
DistinctNames(hs) == \A x, y \in hs : x # y => x.name # y.name

\* no two of the handles share a normalized path
DistinctPaths(hs) == \A x, y \in hs : x # y => x.path # y.path

C7_SortedByPath ==
    call.op = "WriteTo" =>
        \A i, j \in 1..Len(call.lines) :
            i < j => ~StrLess(call.lines[j].path, call.lines[i].path)

\* a block of two paths whose qualifiers are in the opposite order
C7_Witness ==
    /\ call.op = "WriteTo"
    /\ \E i, j \in 1..Len(call.lines) :
        /\ i < j
        /\ StrLess(call.lines[i].path, call.lines[j].path)
        /\ StrLess(call.lines[j].qual, call.lines[i].qual)

\* C8: the import block is deduplicated: no path is on two of its lines.
C8_Deduplicated ==
    call.op = "WriteTo" =>
        \A i, j \in 1..Len(call.lines) :
            i # j => call.lines[i].path # call.lines[j].path

\* C9: the depth is the number of In calls minus the number of Out calls that
\* returned and is never negative; Out at depth zero panics and leaves the
\* indentation, the content, the registry and hasContent as they were.
C9_DepthNeverNegative ==
    /\ [](Len(indent) = net /\ net >= 0)
    /\ [][(Out /\ Len(indent) = 0) =>
            (call'.op = "Out" /\ call'.panic /\ UNCHANGED <<indent, w, imports, hasContent>>)]_vars

\* Out has panicked at depth zero in a printer that holds content and imports
C9_Witness ==
    /\ call.op = "Out" /\ call.panic
    /\ Len(indent) = 0
    /\ w # ""
    /\ DOMAIN imports # {}

\* C10: HasContent is false after construction, true exactly when P has been
\* called, changed by no call but P, and never false again.
C10_HasContent ==
    /\ ~HasContent
    /\ [](HasContent <=> everP)
    /\ [][hasContent' # hasContent => \E f \in PArgs : P(f.format, f.a)]_vars
    /\ [][hasContent => hasContent']_vars

\* HasContent is still true after WriteTo has emptied the content buffer
C10_Witness ==
    /\ call.op = "WriteTo" /\ call.err = "nil"
    /\ w = ""
    /\ HasContent

\* what the sink took of a Write of buf under the answer ans
SinkTook(ans, buf) == SubSeq(buf, 1, SinkResult(ans, Len(buf)).m)

\* the error a write returns when the sink did not take all the bytes
WriteError(ans) == IF ans = "error" THEN "error" ELSE "ErrShortWrite"

\* the header block for the import lines WriteTo wrote
HeaderBlock(lines) ==
    GeneratedLine \o "\n" \o PackageLine(pkgName)
    \o (IF lines # <<>> THEN ImportBlock(lines) ELSE "")

\* C11: WriteTo makes at most two writes, the header block then the content;
\* when the header write returns an error the content is not written and
\* WriteTo returns that error with the header's count; otherwise it returns
\* the sum of both counts and the error of the content write, nil on success.
C11_TwoWrites ==
    [][call'.op = "WriteTo" =>
        LET top == HeaderBlock(call'.lines)
            sink == call'.sink
        IN  /\ call'.writes <= 2
            /\ IF sink[1] # "ok"
               THEN /\ call'.writes = 1
                    /\ call'.file = SinkTook(sink[1], top)
                    /\ call'.err = WriteError(sink[1])
                    /\ call'.n = Len(SinkTook(sink[1], top))
               ELSE /\ call'.file = top \o SinkTook(sink[2], w)
                    /\ call'.n = Len(top) + Len(SinkTook(sink[2], w))
                    /\ call'.err = IF sink[2] = "ok" \/ w = "" THEN "nil" ELSE WriteError(sink[2])
                    /\ call'.writes = IF w = "" THEN 1 ELSE 2]_vars

\* the header was written and the write of the content returned an error
C11_Witness ==
    /\ call.op = "WriteTo"
    /\ call.writes = 2
    /\ call.err = "error"
    /\ call.n > call.n1
    /\ DOMAIN imports # {}

\* C12: registration is lazy: NewImport leaves the registry and the rest of
\* the printer as they were; every key of the registry, and every line of the
\* import block, is an identifier that an invocation of a handle returned for
\* that path, so handles that are declared and never invoked add nothing.
C12_LazyRegistration ==
    /\ [][(\E name \in Names, path \in RawPaths : NewImport(name, path)) =>
            UNCHANGED <<pkgName, w, indent, imports, hasContent>>]_vars
    /\ [](\A k \in DOMAIN imports : [id |-> k, path |-> imports[k]] \in returned)
    /\ [](call.op = "WriteTo" =>
            \A i \in 1..Len(call.lines) :
                [id |-> call.lines[i].qual, path |-> call.lines[i].path] \in returned)
    /\ []((\A h \in handles : h.first = <<>>) =>
            (DOMAIN imports = {} /\ (call.op = "WriteTo" => call.lines = <<>>)))

\* a file written with the import of the one handle that was invoked, another
\* handle declared for another path and never invoked
C12_Witness ==
    /\ call.op = "WriteTo" /\ call.err = "nil"
    /\ Len(call.lines) = 1
    /\ \E h \in handles :
        /\ h.first = <<>>
        /\ h.name \notin DOMAIN imports
        /\ unvendor(h.path) # call.lines[1].path

\* the invocation just made, for name and normalized path, found the name
\* registered to another path and the full path key registered to another path
NamingConflict(m, name, path) ==
    /\ name \in DOMAIN m /\ m[name] # path
    /\ makeFullpath(path) \in DOMAIN m /\ m[makeFullpath(path)] # path

\* C13: the invocation of a handle panics exactly when its name is registered
\* to another path and its full path key is registered to another path, and
\* then the registry is left as it was.
C13_FatalConflict ==
    [][call'.op = "Import" =>
        /\ call'.panic <=> NamingConflict(imports, call'.name, call'.path)
        /\ call'.panic => imports' = imports]_vars

\* a third path was invoked whose name is taken by one path and whose full
\* path key, another key, is taken by a second path
C13_Witness ==
    /\ call.op = "Import" /\ call.panic
    /\ makeFullpath(call.path) # call.name
    /\ imports[call.name] # imports[makeFullpath(call.path)]

\* v is s behind a prefix and the vendoring marker
VendoredFormOf(v, s) == \E X \in Prefixes : v = X \o VendorMarker \o s

\* C14: a path and the same path behind a prefix and /vendor/, invoked under
\* one name one after the other in either order, return the same identifier
\* and register a single path.
C14_VendoringNormalized ==
    [][(/\ call.op = "Import" /\ ~call.panic
        /\ call'.op = "Import" /\ ~call'.panic
        /\ call'.name = call.name
        /\ VendoredFormOf(call.raw, call'.raw) \/ VendoredFormOf(call'.raw, call.raw)) =>
            /\ call'.ret = call.ret
            /\ call'.path = call.path
            /\ imports' = imports]_vars

\* key is path with every character that is not a letter, a digit or an
\* underscore replaced by an underscore
IsFullPathKey(key, path) ==
    /\ Len(key) = Len(path)
    /\ \A i \in 1..Len(path) :
        Char(key, i) = IF Char(path, i) \in Letters \cup Digits \cup {"_"}
                       THEN Char(path, i)
                       ELSE "_"

\* C15: an invocation that returns, for a name and a normalized path, returns
\* the name and registers it to the path when the name is not a key, returns
\* the name and leaves the registry when the name is registered to the path,
\* and otherwise returns the full path key and registers it to the path.
C15_ResolutionOrder ==
    [][(call'.op = "Import" /\ ~call'.panic) =>
        LET name == call'.name
            path == call'.path
        IN  IF name \notin DOMAIN imports
            THEN /\ call'.ret = name
                 /\ imports' = MapPut(imports, name, path)
            ELSE IF imports[name] = path
            THEN /\ call'.ret = name
                 /\ imports' = imports
            ELSE /\ IsFullPathKey(call'.ret, path)
                 /\ imports' = MapPut(imports, call'.ret, path)]_vars

\* the name was given to a first path, and a second path of the same name
\* got its full path key, which is not the path itself
C15_Witness ==
    /\ call.op = "Import" /\ ~call.panic
    /\ call.ret # call.name
    /\ call.ret # call.path
    /\ call.name \in DOMAIN imports
    /\ imports[call.name] = call.name

\* C16: the registry only grows: a key that maps to a path maps to that path
\* in every later state; no step deletes a key or rebinds it, the invocation
\* of a third path whose name and full path key are both taken included.
C16_RegistryMonotone ==
    [][\A k \in DOMAIN imports : k \in DOMAIN imports' /\ imports'[k] = imports[k]]_vars

\* a path that is not registered was invoked, its name and its full path key
\* taken by two other paths, and the registry still holds those two
C16_Witness ==
    /\ call.op = "Import" /\ call.panic
    /\ call.name \in DOMAIN imports
    /\ makeFullpath(call.path) \in DOMAIN imports
    /\ \A k \in DOMAIN imports : imports[k] # call.path
    /\ imports[call.name] # imports[makeFullpath(call.path)]
    /\ Cardinality(DOMAIN imports) = 2

\* C17: every identifier an invocation returned is declared in the output:
\* the import block a WriteTo wrote has, for each identifier returned for a
\* path, a line that binds that identifier to that path.
C17_ReturnedDeclared ==
    (call.op = "WriteTo" /\ call.err = "nil") =>
        \A r \in returned :
            \E i \in 1..Len(call.lines) :
                call.lines[i].qual = r.id /\ call.lines[i].path = r.path

\* n indent units
RECURSIVE Tabs(_)
Tabs(n) == IF n = 0 THEN "" ELSE "\t" \o Tabs(n - 1)

\* what a step appended to the content buffer
Appended == SubSeq(w', Len(w) + 1, Len(w'))

ContentWritten == SubSeq(call.file, call.n1 + 1, Len(call.file))

\* C19: a WriteTo that succeeds writes the provenance line and a blank line,
\* the package line, an import block behind a blank line exactly when the
\* registry is not empty, and then the accumulated content: what the buffer
\* held, which is not empty when P has been called.
C19_Layout ==
    /\ [][(call'.op = "WriteTo" /\ call'.err = "nil") =>
            call'.file = HeaderBlock(call'.lines) \o w]_vars
    /\ []((call.op = "WriteTo" /\ call.err = "nil") =>
            /\ call.lines # <<>> <=> DOMAIN imports # {}
            /\ call.n1 = Len(HeaderBlock(call.lines))
            /\ everP => ContentWritten # "")

\* C20: WriteTo leaves the printer as it was: the content buffer, the
\* registry, the indentation and hasContent are the same after the call,
\* whether it returned an error or not.
C20_WriteToReadOnly ==
    [][call'.op = "WriteTo" =>
        /\ w' = w
        /\ imports' = imports
        /\ indent' = indent
        /\ hasContent' = hasContent]_vars
====
